---- MODULE Spec2Model ----
(***************************************************************************)
(* Wire Motion Flipbook: the row normaliser, the point series resolver,    *)
(* the domain engine and the flipbook state of WireMotionFlipbook          *)
(* (src/unnamed/part_000), as a state machine.                             *)
(***************************************************************************)
EXTENDS Integers, Sequences, FiniteSets, TLC

(***************************************************************************)
(* JavaScript numbers.  The source computes in IEEE-754 binary64: a 53-bit *)
(* significand, round-to-nearest-even, overflow to +-Infinity.  Here a     *)
(* number is an integer count of hundredths (1.00 is 100) kept to a        *)
(* PrecBits-bit significand with the same rounding and overflow rules, so  *)
(* that absorption (x + 1 = x for large x) and overflow happen at          *)
(* magnitudes TLC's integers can hold.  Every value below 2^PrecBits       *)
(* hundredths is exact.                                                    *)
(***************************************************************************)
PrecBits == 12
ExpMax == 9

RECURSIVE Pow2(_)
Pow2(n) == IF n = 0 THEN 1 ELSE 2 * Pow2(n - 1)

Prec == Pow2(PrecBits)
MaxFinite == (Prec - 1) * Pow2(ExpMax)
PosInf == MaxFinite + 1
NegInf == 0 - PosInf
NaN == MaxFinite + 2

Abs(x) == IF x < 0 THEN 0 - x ELSE x

IsFinite(x) == NegInf < x /\ x < PosInf

RECURSIVE UlpFor(_, _, _)
UlpFor(a, d, u) == IF a < Prec * u * d THEN u ELSE UlpFor(a, d, 2 * u)

\* n/d (d > 0) rounded to the nearest representable number, ties to even.
RoundQ(n, d) ==
    LET a == Abs(n)
        u == UlpFor(a, d, 1)
        q == a \div (u * d)
        r == a - q * u * d
        up == IF 2 * r > u * d THEN q + 1
              ELSE IF 2 * r = u * d THEN q + (q % 2)
              ELSE q
        m == up * u
    IN  IF m > MaxFinite THEN (IF n < 0 THEN NegInf ELSE PosInf)
        ELSE IF n < 0 THEN 0 - m ELSE m

FAdd(x, y) ==
    IF x = NaN \/ y = NaN THEN NaN
    ELSE IF x = PosInf THEN (IF y = NegInf THEN NaN ELSE PosInf)
    ELSE IF x = NegInf THEN (IF y = PosInf THEN NaN ELSE NegInf)
    ELSE IF y = PosInf \/ y = NegInf THEN y
    ELSE RoundQ(x + y, 1)

FNeg(x) == IF x = NaN THEN NaN ELSE 0 - x

FSub(x, y) == FAdd(x, FNeg(y))

\* x * (num/100) for a positive literal num/100 (0.05, 0.02).
FMulLit(x, num) ==
    IF x = NaN THEN NaN
    ELSE IF x = PosInf \/ x = NegInf THEN x
    ELSE RoundQ(x * num, 100)

\* JavaScript's a || b on numbers: 0 and NaN are falsy.
OrElse(a, b) == IF a = 0 \/ a = NaN THEN b ELSE a

(***************************************************************************)
(* JavaScript values held in sheet cells and series rows: a number, a      *)
(* string, null, or undefined (the result of reading an absent key).  A    *)
(* row is a function from its keys to values.                              *)
(***************************************************************************)
Num(n) == [t |-> "num", n |-> n, s |-> ""]
Str(s) == [t |-> "str", n |-> 0, s |-> s]
Null == [t |-> "null", n |-> 0, s |-> ""]
Undefined == [t |-> "undef", n |-> 0, s |-> ""]

\* r[k]
Get(r, k) == IF k \in DOMAIN r THEN r[k] ELSE Undefined

\* v == null / v != null (loose equality: null and undefined)
IsNullish(v) == v.t = "null" \/ v.t = "undef"

\* a === b for a value a and a string literal b
StrictEqStr(a, b) == a.t = "str" /\ a.s = b

\* a ?? d on a number-or-nullish value, as a number
Coalesce(a, d) == IF IsNullish(a) THEN d ELSE a.n

\* The numeric strings that occur in the sheets of this model, with the
\* number Number() parses them to; Number() of any other string is NaN.
NumericStrings == ("1" :> 100) @@ ("3.5" :> 350) @@ (" " :> 0)

ToNumber(v) ==
    IF v.t = "num" THEN v.n
    ELSE IF v.t = "str"
         THEN (IF v.s = "" THEN 0
               ELSE IF v.s \in DOMAIN NumericStrings THEN NumericStrings[v.s]
               ELSE NaN)
    ELSE IF v.t = "null" THEN 0
    ELSE NaN

POINTS == <<"A", "B", "C", "D", "E", "F", "G", "H", "I", "J", "K">>

PointSet == {POINTS[i] : i \in 1..Len(POINTS)}

METRICS ==
    << [key |-> "disp",
        series |-> << [keyRaw |-> "push_mm", keySm |-> "push_mm_smooth"],
                      [keyRaw |-> "slice_mm", keySm |-> "slice_mm_smooth"] >>],
       [key |-> "vel",
        series |-> << [keyRaw |-> "push_mm_s", keySm |-> "push_mm_s_smooth"],
                      [keyRaw |-> "slice_mm_s", keySm |-> "slice_mm_s_smooth"] >>],
       [key |-> "theta",
        series |-> << [keyRaw |-> "theta_deg", keySm |-> "theta_deg_smooth"] >>],
       [key |-> "ratio",
        series |-> << [keyRaw |-> "ratio", keySm |-> "ratio_smooth"] >>] >>

MetricKeys == {METRICS[i].key : i \in 1..Len(METRICS)}

Metric(mk) == CHOOSE m \in {METRICS[i] : i \in 1..Len(METRICS)} : m.key = mk

buildPointKey(p) == "per_step_" \o p \o "_smooth"

numberOrNull(v) ==
    IF v.t = "null" \/ v.t = "undef" \/ (v.t = "str" /\ v.s = "") THEN Null
    ELSE LET n == ToNumber(v)
         IN  IF IsFinite(n) THEN Num(n) ELSE Null

formatTime(s) == numberOrNull(s)

\* /t_k$/i over the keys that occur in the sheets of this model
IsTimeKey(k) == k \in {"t_k", "T_K"}

coerceRow(r) ==
    LET out == [k \in DOMAIN r |->
                    IF IsTimeKey(k) THEN formatTime(r[k]) ELSE numberOrNull(r[k])]
    IN  IF IsNullish(Get(out, "t_k")) /\ ~IsNullish(Get(r, "t"))
        THEN [k \in DOMAIN out \cup {"t_k"} |->
                IF k = "t_k" THEN numberOrNull(r["t"]) ELSE out[k]]
        ELSE out

coerceRows(rows) == [i \in 1..Len(rows) |-> coerceRow(rows[i])]

(***************************************************************************)
(* Domain engine.  A running [lo, hi] pair starts at [+Infinity,           *)
(* -Infinity]; a domain is a pair <<low, high>>.                           *)
(***************************************************************************)
EmptyAcc == [lo |-> PosInf, hi |-> NegInf]

\* if (v != null && Number.isFinite(v)) { if (v < lo) lo = v; if (v > hi) hi = v; }
ScanValue(acc, v) ==
    IF ~IsNullish(v) /\ v.t = "num" /\ IsFinite(v.n)
    THEN [lo |-> IF v.n < acc.lo THEN v.n ELSE acc.lo,
          hi |-> IF v.n > acc.hi THEN v.n ELSE acc.hi]
    ELSE acc

ActiveKey(sr, useSm) == IF useSm THEN sr.keySm ELSE sr.keyRaw

RECURSIVE ScanSeries(_, _, _, _, _)
ScanSeries(acc, r, series, i, useSm) ==
    IF i > Len(series) THEN acc
    ELSE ScanSeries(ScanValue(acc, Get(r, ActiveKey(series[i], useSm))),
                    r, series, i + 1, useSm)

RECURSIVE ScanRows(_, _, _, _, _)
ScanRows(acc, rows, i, series, useSm) ==
    IF i > Len(rows) THEN acc
    ELSE ScanRows(ScanSeries(acc, rows[i], series, 1, useSm),
                  rows, i + 1, series, useSm)

RECURSIVE ScanTimes(_, _, _)
ScanTimes(acc, rows, i) ==
    IF i > Len(rows) THEN acc
    ELSE ScanTimes(ScanValue(acc, Get(rows[i], "t_k")), rows, i + 1)

\* Object.values(pointData): the entries in insertion order, which for a
\* store built by onUpload is the order of POINTS.
RECURSIVE ObjectValuesFrom(_, _)
ObjectValuesFrom(pointData, i) ==
    IF i > Len(POINTS) THEN <<>>
    ELSE IF POINTS[i] \in DOMAIN pointData
         THEN <<pointData[POINTS[i]]>> \o ObjectValuesFrom(pointData, i + 1)
         ELSE ObjectValuesFrom(pointData, i + 1)

ObjectValues(pointData) == ObjectValuesFrom(pointData, 1)

RECURSIVE ScanPoints(_, _, _, _, _)
ScanPoints(acc, vals, i, series, useSm) ==
    IF i > Len(vals) THEN acc
    ELSE ScanPoints(ScanRows(acc, vals[i], 1, series, useSm),
                    vals, i + 1, series, useSm)

RECURSIVE ScanPointTimes(_, _, _)
ScanPointTimes(acc, vals, i) ==
    IF i > Len(vals) THEN acc
    ELSE ScanPointTimes(ScanTimes(acc, vals[i], 1), vals, i + 1)

\* PadY, mutated: the fallback domain is padded by 1 unit instead of 5% of
\* its span
PadYUnit(acc) ==
    IF ~IsFinite(acc.lo) \/ ~IsFinite(acc.hi)
    THEN <<FSub(0 - 100, 100), FAdd(100, 100)>>
    ELSE LET pad == OrElse(FMulLit(FSub(acc.hi, acc.lo), 5), 100)
         IN  <<FSub(acc.lo, pad), FAdd(acc.hi, pad)>>

\* fallback [-1, 1], then pad = (hi - lo) * 0.05 || 1
PadY(acc) ==
    LET fb == IF ~IsFinite(acc.lo) \/ ~IsFinite(acc.hi)
              THEN [lo |-> 0 - 100, hi |-> 100] ELSE acc
        pad == OrElse(FMulLit(FSub(fb.hi, fb.lo), 5), 100)
    IN  <<FSub(fb.lo, pad), FAdd(fb.hi, pad)>>

\* fallback [0, 1], then pad = (tMax - tMin) * 0.02 || 0.01
PadX(acc) ==
    LET fb == IF ~IsFinite(acc.lo) \/ ~IsFinite(acc.hi)
              THEN [lo |-> 0, hi |-> 100] ELSE acc
        pad == OrElse(FMulLit(FSub(fb.hi, fb.lo), 2), 1)
    IN  <<FSub(fb.lo, pad), FAdd(fb.hi, pad)>>

computeGlobalDomains(pointData, useSm) ==
    [mk \in MetricKeys |->
        PadY(ScanPoints(EmptyAcc, ObjectValues(pointData), 1,
                        Metric(mk).series, useSm))]

computeGlobalXDomain(pointData) ==
    PadX(ScanPointTimes(EmptyAcc, ObjectValues(pointData), 1))

\* The time scan sits inside METRICS.forEach: it runs once per metric on the
\* same running tMin/tMax.
RECURSIVE LocalTimes(_, _, _)
LocalTimes(acc, rows, m) ==
    IF m > Len(METRICS) THEN acc
    ELSE LocalTimes(ScanTimes(acc, rows, 1), rows, m + 1)

\* computeLocalDomains, mutated: the time axis is padded with the y-axis
\* constants (5%, or 1 unit on a zero span)
computeLocalDomainsYPad(rows, useSm) ==
    [y |-> [mk \in MetricKeys |->
                PadY(ScanRows(EmptyAcc, rows, 1, Metric(mk).series, useSm))],
     x |-> LET t == LocalTimes(EmptyAcc, rows, 1)
           IN  IF ~IsFinite(t.lo) \/ ~IsFinite(t.hi) THEN PadX(t) ELSE PadY(t)]

computeLocalDomains(rows, useSm) ==
    [y |-> [mk \in MetricKeys |->
                PadY(ScanRows(EmptyAcc, rows, 1, Metric(mk).series, useSm))],
     x |-> PadX(LocalTimes(EmptyAcc, rows, 1))]

(***************************************************************************)
(* Point series resolver (the synchronous part of onUpload).               *)
(***************************************************************************)
\* getSheet(workbook, name) is a sheet, not undefined
HasSheet(workbook, name) == name \in DOMAIN workbook

\* toArray(getSheet(workbook, name)): an absent sheet gives no rows
toArray(workbook, name) == IF HasSheet(workbook, name) THEN workbook[name] ELSE <<>>

\* (a, b) => (a.t_k ?? 0) - (b.t_k ?? 0)
CompareRows(a, b) == FSub(Coalesce(Get(a, "t_k"), 0), Coalesce(Get(b, "t_k"), 0))

\* Array.prototype.sort is stable: r goes before the first row that compares
\* greater than it.
RECURSIVE InsertRow(_, _)
InsertRow(sorted, r) ==
    IF sorted = <<>> THEN <<r>>
    ELSE IF CompareRows(Head(sorted), r) > 0 THEN <<r>> \o sorted
    ELSE <<Head(sorted)>> \o InsertRow(Tail(sorted), r)

RECURSIVE SortFrom(_, _, _)
SortFrom(sorted, rows, i) ==
    IF i > Len(rows) THEN sorted
    ELSE SortFrom(InsertRow(sorted, rows[i]), rows, i + 1)

SortRows(rows) == SortFrom(<<>>, rows, 1)

\* perStepAll.filter((r) => r['Point'] === P)
FilterPoint(rows, P) == SelectSeq(rows, LAMBDA r : StrictEqStr(Get(r, "Point"), P))

PerStepAll(wbLocal) == coerceRows(toArray(wbLocal, "per_step_all"))

GroupedFor(wbLocal, P) ==
    IF HasSheet(wbLocal, buildPointKey(P))
    THEN SortRows(coerceRows(toArray(wbLocal, buildPointKey(P))))
    ELSE SortRows(coerceRows(FilterPoint(PerStepAll(wbLocal), P)))

Grouped(wbLocal) == [P \in PointSet |-> GroupedFor(wbLocal, P)]

(***************************************************************************)
(* Files the user can select: each holds a workbook, a function from sheet *)
(* names to the rows sheet_to_json gives (defval: null).                   *)
(***************************************************************************)
Big == Pow2(PrecBits - 1 + ExpMax)

\* per-point sheets for A (rows out of time order, one non-numeric cell) and
\* B (time under the key t, as a numeric string)
Workbook1 ==
    ("per_step_A_smooth" :>
        << [t_k |-> Num(200), push_mm |-> Num(100), push_mm_smooth |-> Num(150)],
           [t_k |-> Num(100), push_mm |-> Str("abc"), push_mm_smooth |-> Num(300)] >>)
    @@ ("per_step_B_smooth" :>
        << [t |-> Str("3.5"), theta_deg_smooth |-> Num(0 - 2000),
            ratio_smooth |-> Null] >>)

\* the combined sheet, next to a per-point sheet for K alone
Workbook2 ==
    ("per_step_all" :>
        << [Point |-> Str("A"), t_k |-> Num(0), push_mm |-> Num(0),
            slice_mm |-> Num(100)],
           [Point |-> Str("B"), t_k |-> Num(100), push_mm |-> Num(500),
            slice_mm |-> Num(0 - 100)],
           [Point |-> Str("K"), t_k |-> Num(0), ratio |-> Num(200)],
           [Point |-> Str("A"), t_k |-> Num(100), push_mm |-> Num(200),
            slice_mm |-> Null] >>)
    @@ ("per_step_K_smooth" :>
        << [t_k |-> Num(100), ratio |-> Num(50), ratio_smooth |-> Num(50)] >>)

\* a per-point sheet for C alone, holding large magnitudes
Workbook3 ==
    ("per_step_C_smooth" :>
        << [t_k |-> Num(0), push_mm |-> Num(Big), slice_mm |-> Num(0 - Big),
            push_mm_smooth |-> Num(Big)] >>)

FILES == <<Workbook1, Workbook2, Workbook3>>

FileIds == 1..Len(FILES)

(***************************************************************************)
(* State of the WireMotionFlipbook component.                              *)
(*   wb, pointSeries, currentPoint, useSmoothed, full, lockAxes: useState  *)
(*   pending:   the asynchronous operations in flight, in start order:     *)
(*              an upload awaiting file.arrayBuffer(), an export awaiting  *)
(*              import('html-to-image'), an export awaiting toPng()        *)
(*   notices:   alert() calls made                                         *)
(*   unhandled: promise rejections no handler received                     *)
(* History, written but never read by the program's actions:               *)
(*   failures:  external operations that failed                            *)
(*   prevWb:    wb as it was before the last completed upload              *)
(*   started:   asynchronous operations started so far                     *)
(*   justLoaded: the current state was produced by the completion of an    *)
(*              upload                                                     *)
(*   lastSelected: the file most recently selected in the file input, 0    *)
(*              before any selection                                       *)
(***************************************************************************)
VARIABLES wb, pointSeries, currentPoint, useSmoothed, full, lockAxes,
          pending, notices, unhandled, failures, prevWb, justLoaded, started,
          lastSelected

vars == <<wb, pointSeries, currentPoint, useSmoothed, full, lockAxes,
          pending, notices, unhandled, failures, prevWb, justLoaded, started,
          lastSelected>>

flags == <<currentPoint, useSmoothed, full, lockAxes>>

async == <<pending, notices, unhandled, failures, started>>

\* Asynchronous operations the user starts in one run of the model.
MaxAsync == 2

\* Largest |delta| drawn for step() when it is exercised as a function.
MaxDelta == 12

\* Rows in a store built for the domain engine.
MaxRows == 2

UndefinedPoint == "undefined"

Init ==
    /\ wb = Null
    /\ pointSeries = <<>>
    /\ currentPoint = POINTS[1]
    /\ useSmoothed = TRUE
    /\ full = FALSE
    /\ lockAxes = TRUE
    /\ pending = <<>>
    /\ notices = 0
    /\ unhandled = 0
    /\ failures = 0
    /\ prevWb = Null
    /\ justLoaded = FALSE
    /\ started = 0
    /\ lastSelected = 0

\* POINTS.indexOf(p), 0-based, -1 when absent
IndexOf(p) ==
    IF p \in PointSet THEN (CHOOSE i \in 1..Len(POINTS) : POINTS[i] = p) - 1
    ELSE 0 - 1

\* JavaScript's %: the result takes the sign of the dividend
JsRem(a, n) == IF a >= 0 THEN a % n ELSE 0 - ((0 - a) % n)

\* POINTS[next]: undefined outside 0..length-1
PointAt(next) ==
    IF next >= 0 /\ next < Len(POINTS) THEN POINTS[next + 1] ELSE UndefinedPoint

\* stepPoint, mutated: the index is clamped to the ends instead of wrapping
stepPointClamp(p, delta) ==
    LET next == IndexOf(p) + delta
    IN  PointAt(IF next < 0 THEN 0
                ELSE IF next >= Len(POINTS) THEN Len(POINTS) - 1 ELSE next)

stepPoint(p, delta) == PointAt(JsRem(IndexOf(p) + delta + Len(POINTS), Len(POINTS)))

step(delta) ==
    /\ currentPoint' = stepPoint(currentPoint, delta)
    /\ justLoaded' = FALSE
    /\ UNCHANGED lastSelected
    /\ UNCHANGED <<wb, pointSeries, useSmoothed, full, lockAxes, async, prevWb>>

\* ArrowLeft / Prev button, ArrowRight / Next button
Navigate == \E delta \in {0 - 1, 1} : step(delta)

ToggleSmoothed ==
    /\ useSmoothed' = ~useSmoothed
    /\ justLoaded' = FALSE
    /\ UNCHANGED lastSelected
    /\ UNCHANGED <<wb, pointSeries, currentPoint, full, lockAxes, async, prevWb>>

ToggleLock ==
    /\ lockAxes' = ~lockAxes
    /\ justLoaded' = FALSE
    /\ UNCHANGED lastSelected
    /\ UNCHANGED <<wb, pointSeries, currentPoint, useSmoothed, full, async, prevWb>>

ToggleFull ==
    /\ full' = ~full
    /\ justLoaded' = FALSE
    /\ UNCHANGED lastSelected
    /\ UNCHANGED <<wb, pointSeries, currentPoint, useSmoothed, lockAxes, async, prevWb>>

RemoveAt(q, k) == SubSeq(q, 1, k - 1) \o SubSeq(q, k + 1, Len(q))

\* <input onChange>: onUpload(f) runs up to its await of file.arrayBuffer()
SelectFile(f) ==
    /\ started < MaxAsync
    /\ pending' = Append(pending, [kind |-> "upload", file |-> f])
    /\ started' = started + 1
    /\ justLoaded' = FALSE
    /\ lastSelected' = f
    /\ UNCHANGED <<wb, pointSeries, flags, notices, unhandled, failures, prevWb>>

\* setPointSeries(grouped), mutated: entries without rows keep the old series
UploadDoneMerge(k) ==
    /\ k \in 1..Len(pending)
    /\ pending[k].kind = "upload"
    /\ LET wbLocal == FILES[pending[k].file]
           grouped == Grouped(wbLocal)
       IN  /\ wb' = wbLocal
           /\ pointSeries' = [P \in PointSet |->
                                IF grouped[P] = <<>> /\ P \in DOMAIN pointSeries
                                THEN pointSeries[P] ELSE grouped[P]]
    /\ prevWb' = wb
    /\ pending' = RemoveAt(pending, k)
    /\ justLoaded' = TRUE
    /\ UNCHANGED lastSelected
    /\ UNCHANGED <<flags, notices, unhandled, failures, started>>

\* onUpload, mutated: the view goes back to the first point
UploadDoneReset(k) ==
    /\ k \in 1..Len(pending)
    /\ pending[k].kind = "upload"
    /\ LET wbLocal == FILES[pending[k].file]
       IN  /\ wb' = wbLocal
           /\ pointSeries' = Grouped(wbLocal)
    /\ currentPoint' = POINTS[1]
    /\ prevWb' = wb
    /\ pending' = RemoveAt(pending, k)
    /\ justLoaded' = TRUE
    /\ UNCHANGED lastSelected
    /\ UNCHANGED <<useSmoothed, full, lockAxes, notices, unhandled, failures, started>>

\* The read of upload k resolves and XLSX.read returns: the rest of onUpload
\* runs to its end.
UploadDone(k) ==
    /\ k \in 1..Len(pending)
    /\ pending[k].kind = "upload"
    /\ LET wbLocal == FILES[pending[k].file]
       IN  /\ wb' = wbLocal
           /\ pointSeries' = Grouped(wbLocal)
    /\ prevWb' = wb
    /\ pending' = RemoveAt(pending, k)
    /\ justLoaded' = TRUE
    /\ UNCHANGED lastSelected
    /\ UNCHANGED <<flags, notices, unhandled, failures, started>>

\* file.arrayBuffer() rejects or XLSX.read throws: the promise onUpload
\* returned rejects, and its caller attached no handler.
UploadFail(k) ==
    /\ k \in 1..Len(pending)
    /\ pending[k].kind = "upload"
    /\ unhandled' = unhandled + 1
    /\ failures' = failures + 1
    /\ pending' = RemoveAt(pending, k)
    /\ justLoaded' = FALSE
    /\ UNCHANGED lastSelected
    /\ UNCHANGED <<wb, pointSeries, flags, notices, prevWb, started>>

\* exportPng() up to import('html-to-image')
exportPng ==
    /\ started < MaxAsync
    /\ pending' = Append(pending, [kind |-> "import", file |-> 0])
    /\ started' = started + 1
    /\ justLoaded' = FALSE
    /\ UNCHANGED lastSelected
    /\ UNCHANGED <<wb, pointSeries, flags, notices, unhandled, failures, prevWb>>

\* the import resolves: captureRef.current is the mounted chart area, toPng
\* is called and its promise is neither returned nor given a handler
ImportDone(k) ==
    /\ k \in 1..Len(pending)
    /\ pending[k].kind = "import"
    /\ pending' = [pending EXCEPT ![k].kind = "toPng"]
    /\ justLoaded' = FALSE
    /\ UNCHANGED lastSelected
    /\ UNCHANGED <<wb, pointSeries, flags, notices, unhandled, failures, prevWb, started>>

\* the import rejects: .catch shows the alert
ImportFail(k) ==
    /\ k \in 1..Len(pending)
    /\ pending[k].kind = "import"
    /\ notices' = notices + 1
    /\ failures' = failures + 1
    /\ pending' = RemoveAt(pending, k)
    /\ justLoaded' = FALSE
    /\ UNCHANGED lastSelected
    /\ UNCHANGED <<wb, pointSeries, flags, unhandled, prevWb, started>>

\* toPng resolves: the image is downloaded
ToPngDone(k) ==
    /\ k \in 1..Len(pending)
    /\ pending[k].kind = "toPng"
    /\ pending' = RemoveAt(pending, k)
    /\ justLoaded' = FALSE
    /\ UNCHANGED lastSelected
    /\ UNCHANGED <<wb, pointSeries, flags, notices, unhandled, failures, prevWb, started>>

\* toPng rejects: nothing handles the rejection
ToPngFail(k) ==
    /\ k \in 1..Len(pending)
    /\ pending[k].kind = "toPng"
    /\ unhandled' = unhandled + 1
    /\ failures' = failures + 1
    /\ pending' = RemoveAt(pending, k)
    /\ justLoaded' = FALSE
    /\ UNCHANGED lastSelected
    /\ UNCHANGED <<wb, pointSeries, flags, notices, prevWb, started>>

Upload == \E f \in FileIds : SelectFile(f)

UploadCompletes == \E k \in 1..MaxAsync + 1 : UploadDone(k)

UploadRejects == \E k \in 1..MaxAsync + 1 : UploadFail(k)

ImportCompletes == \E k \in 1..MaxAsync + 1 : ImportDone(k)

ImportRejects == \E k \in 1..MaxAsync + 1 : ImportFail(k)

ToPngCompletes == \E k \in 1..MaxAsync + 1 : ToPngDone(k)

ToPngRejects == \E k \in 1..MaxAsync + 1 : ToPngFail(k)

Next ==
    \/ Navigate
    \/ ToggleSmoothed
    \/ ToggleLock
    \/ ToggleFull
    \/ Upload
    \/ UploadCompletes
    \/ UploadRejects

Spec == Init /\ [][Next]_vars

\* The component with its PNG export.
NextExport ==
    \/ Next
    \/ exportPng
    \/ ImportCompletes
    \/ ImportRejects
    \/ ToPngCompletes
    \/ ToPngRejects

SpecExport == Init /\ [][NextExport]_vars

(***************************************************************************)
(* Derived values of a render (useMemo) and the domains handed to the      *)
(* chart axes.                                                             *)
(***************************************************************************)
\* pointSeries[p] ?? []
seriesFor(p) == IF p \in DOMAIN pointSeries THEN pointSeries[p] ELSE <<>>

seriesForPoint == seriesFor(currentPoint)

domains == computeGlobalDomains(pointSeries, useSmoothed)

globalX == computeGlobalXDomain(pointSeries)

localDomainsFor(p) == computeLocalDomains(seriesFor(p), useSmoothed)

localDomains == localDomainsFor(currentPoint)

\* The domain props of XAxis and YAxis in a render whose current point is p.
XAxisDomainAt(p) == IF lockAxes THEN globalX ELSE localDomainsFor(p).x

\* YAxisDomainAt, mutated: the lock is ignored
YAxisLocalAt(p, mk) == localDomainsFor(p).y[mk]

YAxisDomainAt(p, mk) == IF lockAxes THEN domains[mk] ELSE localDomainsFor(p).y[mk]

XAxisDomain == XAxisDomainAt(currentPoint)

YAxisDomain(mk) == YAxisDomainAt(currentPoint, mk)

(***************************************************************************)
(* step() as a function of any integer delta.                              *)
(***************************************************************************)
StepAny == \E delta \in (0 - MaxDelta)..MaxDelta : step(delta)

NextStep == Next \/ StepAny

SpecStep == Init /\ [][NextStep]_vars

(***************************************************************************)
(* The domain engine as a function of any store: the store is built row by *)
(* row from the rows below, for two points.                                *)
(***************************************************************************)
\* the two rows of the self-test 'Global domains aggregate across points'
dA == [t_k |-> Num(0), push_mm |-> Num(0), slice_mm |-> Num(100),
       push_mm_s |-> Num(0), slice_mm_s |-> Num(200),
       theta_deg |-> Num(1000), ratio |-> Num(50)]

dB == [t_k |-> Num(100), push_mm |-> Num(500), slice_mm |-> Num(0 - 100),
       push_mm_s |-> Num(300), slice_mm_s |-> Num(0 - 200),
       theta_deg |-> Num(0 - 2000), ratio |-> Num(200)]

DomainKeys == {"t_k", "push_mm", "slice_mm", "push_mm_smooth"}

\* 0, a large value, the next representable value above it, and its negation
DomainValues == {Num(0), Num(Big), Num(Big + Pow2(ExpMax)), Num(0 - Big), Null}

DomainRows ==
    {dA, dB, <<>>} \cup {(k :> v) : k \in DomainKeys, v \in DomainValues}

DomainPoints == {"A", "B"}

RECURSIVE CountRows(_, _)
CountRows(vals, i) ==
    IF i > Len(vals) THEN 0 ELSE Len(vals[i]) + CountRows(vals, i + 1)

NewPoint(P) ==
    /\ P \notin DOMAIN pointSeries
    /\ pointSeries' = (P :> <<>>) @@ pointSeries
    /\ justLoaded' = FALSE
    /\ UNCHANGED lastSelected
    /\ UNCHANGED <<wb, flags, async, prevWb>>

AddRow(P, r) ==
    /\ P \in DOMAIN pointSeries
    /\ CountRows(ObjectValues(pointSeries), 1) < MaxRows
    /\ pointSeries' = [pointSeries EXCEPT ![P] = Append(@, r)]
    /\ justLoaded' = FALSE
    /\ UNCHANGED lastSelected
    /\ UNCHANGED <<wb, flags, async, prevWb>>

BuildStore ==
    \/ \E P \in DomainPoints : NewPoint(P)
    \/ \E P \in DomainPoints, r \in DomainRows : AddRow(P, r)

NextDomains == BuildStore \/ ToggleSmoothed

SpecDomains == Init /\ [][NextDomains]_vars

\* The domain engine as a function of one row sequence: the rows of a single
\* point, built row by row.
RowsPoint == "A"

BuildRows ==
    \/ NewPoint(RowsPoint)
    \/ \E r \in DomainRows : AddRow(RowsPoint, r)

NextRows == BuildRows \/ ToggleSmoothed

SpecRows == Init /\ [][NextRows]_vars

(***************************************************************************)
(* Properties.                                                             *)
(***************************************************************************)
\* The series the fallback is documented to give: the combined sheet's rows
\* whose Point cell is P, then normalised and sorted.
ExpectedFallback(w, P) ==
    SortRows(coerceRows(FilterPoint(toArray(w, "per_step_all"), P)))

\* C1: after an upload, a point with no per-point sheet in a workbook that has
\* the combined sheet holds exactly the combined sheet's rows for that point,
\* normalised and sorted by t_k.
C1Claim ==
    wb # Null =>
        \A P \in PointSet :
            (~HasSheet(wb, buildPointKey(P)) /\ HasSheet(wb, "per_step_all"))
                => pointSeries[P] = ExpectedFallback(wb, P)

NonDegenerate(d) == IsFinite(d[1]) /\ IsFinite(d[2]) /\ d[1] < d[2]

RowSequences == {<<>>} \cup {pointSeries[P] : P \in DOMAIN pointSeries}

\* C2: every interval the domain engine returns for the store, and for each
\* row sequence of it, has finite bounds and low < high.
C2Claim ==
    /\ \A mk \in MetricKeys : NonDegenerate(domains[mk])
    /\ NonDegenerate(globalX)
    /\ \A rows \in RowSequences :
        /\ NonDegenerate(computeLocalDomains(rows, useSmoothed).x)
        /\ \A mk \in MetricKeys :
            NonDegenerate(computeLocalDomains(rows, useSmoothed).y[mk])

\* The finite values of a metric's active fields, over every row of every point.
Contributing(mk) ==
    LET cells == UNION { UNION { { Get(pointSeries[P][i],
                                       ActiveKey(Metric(mk).series[j], useSmoothed)) :
                                   j \in 1..Len(Metric(mk).series) } :
                                 i \in 1..Len(pointSeries[P]) } :
                         P \in DOMAIN pointSeries }
    IN  {c.n : c \in {d \in cells : d.t = "num" /\ IsFinite(d.n)}}

\* C3: a metric with at least one contributing value has a global domain whose
\* low is strictly below the least and whose high is strictly above the
\* greatest contributing value.
C3Claim ==
    \A mk \in MetricKeys :
        \A v \in Contributing(mk) :
            domains[mk][1] < v /\ v < domains[mk][2]

\* C4 as stated: the local domains of an empty row sequence are
\* x = [-0.01, 1.01] and y = [-2, 2] for every metric.
C4Claim ==
    seriesForPoint = <<>> =>
        /\ localDomains.x = <<0 - 1, 101>>
        /\ \A mk \in MetricKeys : localDomains.y[mk] = <<0 - 200, 200>>

\* C4 as amended: the local domains of an empty row sequence are
\* x = [-0.02, 1.02] (the default [0, 1] padded by 2% of its span) and
\* y = [-1.1, 1.1] for every metric (the fallback [-1, 1] padded by 5% of its
\* span).
C4Amended ==
    seriesForPoint = <<>> =>
        /\ localDomains.x = <<0 - 2, 102>>
        /\ \A mk \in MetricKeys : localDomains.y[mk] = <<0 - 110, 110>>

\* An uploaded workbook leaves the current point without rows, raw series shown.
C4Witness ==
    /\ wb # Null
    /\ currentPoint \in DOMAIN pointSeries
    /\ seriesForPoint = <<>>
    /\ ~useSmoothed
    /\ ~lockAxes

RECURSIVE StepTimes(_, _, _)
StepTimes(p, delta, n) ==
    IF n = 0 THEN p ELSE StepTimes(stepPoint(p, delta), delta, n - 1)

\* C5: from the current point, step(+1) applied as many times as there are
\* points returns to it, step(-1) and step(+1) undo each other, and step(+1)
\* from the last point gives the first.
C5Cyclic ==
    /\ StepTimes(currentPoint, 1, Len(POINTS)) = currentPoint
    /\ stepPoint(stepPoint(currentPoint, 1), 0 - 1) = currentPoint
    /\ stepPoint(stepPoint(currentPoint, 0 - 1), 1) = currentPoint
    /\ currentPoint = POINTS[Len(POINTS)] => stepPoint(currentPoint, 1) = POINTS[1]

\* Navigation has reached the last point.
C5Witness == currentPoint = POINTS[Len(POINTS)]

\* C6: after step(delta), for any integer delta, the current point is a member
\* of the point set.
C6Claim == currentPoint \in PointSet

\* The rows of every sheet of a workbook, normalised.
RowsOfWorkbook(w) ==
    UNION { {coerceRow(w[sh][i]) : i \in 1..Len(w[sh])} : sh \in DOMAIN w }

SeriesRows(P) == {pointSeries[P][i] : i \in 1..Len(pointSeries[P])}

\* C7: once an upload has completed the store has an entry for every point,
\* every row in it is a normalised row of the workbook last loaded, a point
\* with neither a per-point sheet nor a combined sheet in that workbook has no
\* rows, and no row of the workbook loaded before it remains.
C7Replaced ==
    wb # Null =>
        /\ DOMAIN pointSeries = PointSet
        /\ \A P \in PointSet :
            /\ SeriesRows(P) \subseteq RowsOfWorkbook(wb)
            /\ (~HasSheet(wb, buildPointKey(P)) /\ ~HasSheet(wb, "per_step_all"))
                  => pointSeries[P] = <<>>
            /\ (prevWb # Null /\ prevWb # wb)
                  => SeriesRows(P) \cap RowsOfWorkbook(prevWb) = {}

\* A second upload has completed; point A had rows under the first workbook
\* and has no source sheet in the second.
C7Witness ==
    /\ justLoaded
    /\ prevWb = Workbook1
    /\ wb = Workbook3
    /\ Grouped(prevWb)["A"] # <<>>
    /\ pointSeries["A"] = <<>>
    /\ pointSeries["C"] # <<>>

\* C8: while the lock is on, the x-domain and every metric's y-domain handed
\* to the chart are those handed to it at the points step(+1) and step(-1)
\* lead to, over the same store and raw/smoothed flag; as this holds at every
\* current point, no sequence of steps changes them.
C8LockedAxes ==
    lockAxes =>
        LET x == XAxisDomain
            y == [mk \in MetricKeys |-> YAxisDomain(mk)]
        IN  \A delta \in {0 - 1, 1} :
                LET p == stepPoint(currentPoint, delta)
                IN  /\ XAxisDomainAt(p) = x
                    /\ \A mk \in MetricKeys : YAxisDomainAt(p, mk) = y[mk]

\* Navigation under the lock has moved between two points whose own domains
\* differ.
C8Witness ==
    /\ lockAxes
    /\ wb = Workbook1
    /\ currentPoint = "B"
    /\ computeLocalDomains(pointSeries["A"], useSmoothed)
         # computeLocalDomains(pointSeries["B"], useSmoothed)

\* C9: no failure of the workbook read or of the PNG export is left
\* unhandled, and each produces a notice.
C9Claim == unhandled = 0 /\ notices = failures

\* C10: the step that completes an upload leaves the current point and the
\* raw/smoothed, axis-lock and full-screen flags as they were.
C10FlagsKept ==
    [][(justLoaded' = TRUE /\ pending' # pending)
        => (/\ currentPoint' = currentPoint
            /\ useSmoothed' = useSmoothed
            /\ lockAxes' = lockAxes
            /\ full' = full)]_vars

\* An upload has just completed with every flag away from its initial value.
C10Witness ==
    /\ justLoaded
    /\ currentPoint = "C"
    /\ ~useSmoothed
    /\ ~lockAxes
    /\ full


\* C11: for every row sequence R (the rows built so far, and the empty
\* sequence), every point P and the current raw/smoothed flag, the local
\* domains of R are the global domains of the one-point store {P: R}: the same
\* y-domain for every metric and the same x-domain.
C11LocalIsGlobal ==
    \A P \in DomainPoints :
        \A R \in {<<>>, seriesFor(RowsPoint)} :
            LET local == computeLocalDomains(R, useSmoothed)
                global == computeGlobalDomains((P :> R), useSmoothed)
            IN  /\ \A mk \in MetricKeys : local.y[mk] = global[mk]
                /\ local.x = computeGlobalXDomain((P :> R))

\* A point holds two rows with distinct times and distinct values of the
\* active fields, so neither scan falls back.
C11Witness ==
    /\ seriesFor(RowsPoint) = <<dA, dB>>
    /\ ~useSmoothed
    /\ computeLocalDomains(seriesFor(RowsPoint), useSmoothed).x = <<0 - 2, 102>>
    /\ computeLocalDomains(seriesFor(RowsPoint), useSmoothed).y["disp"] = <<0 - 130, 530>>

\* C12: once every upload started has completed, two or more were started and
\* none failed, the store holds the series resolved from the file selected
\* last; and the store is always empty or the series of one single workbook.
C12Claim ==
    /\ (started >= 2 /\ pending = <<>> /\ failures = 0)
          => /\ wb = FILES[lastSelected]
             /\ pointSeries = Grouped(FILES[lastSelected])
    /\ \/ pointSeries = <<>>
       \/ \E f \in FileIds : pointSeries = Grouped(FILES[f])

====
